---- MODULE Spec2Model ----
(***************************************************************************)
(* A model of debug_tools.py: the ProductionDebugTool class (endpoint      *)
(* prober, research-flow simulator, dependency checker, log classifier,    *)
(* report assembler) and the interactive menu loop of main.                *)
(*                                                                         *)
(* Python strings that the code inspects character by character (the menu  *)
(* choice, the log text, the keywords) are sequences of one-character      *)
(* strings.  The non-ASCII glyphs of the report are named tokens: CHECK is *)
(* U+2705 (white heavy check mark), CROSS is U+274C (cross mark), SEIJOU   *)
(* is the word printed after CHECK on a healthy line and IJOU the word     *)
(* printed after CROSS on a failing one.                                   *)
(***************************************************************************)
EXTENDS Integers, Sequences, FiniteSets, TLC

VARIABLES
  pc,            \* control location of main / of the check that is running
  base_url,      \* ProductionDebugTool.base_url
  session,       \* attributes set on the requests.Session object
  choice,        \* main: the stripped menu input
  console,       \* main: what the last loop iteration printed
  inflight,      \* the HTTP request that is blocking the tool, or NoRequest
  issued,        \* the HTTP requests sent since the last menu prompt
  calls,         \* the check functions entered since the last menu prompt
  ep,            \* test_basic_endpoints: index of the endpoint being probed
  results,       \* test_basic_endpoints: results / basic_test
  prompts_data,  \* simulate_research_flow: the parsed prompt listing
  flow_test,     \* the record returned by simulate_research_flow
  dependencies,  \* check_api_dependencies: dependencies / deps_test
  report,        \* generate_debug_report: the returned report_lines
  response,      \* the response object of the last completed request
  healthy,       \* history: every response since the menu prompt was healthy
  log_text,      \* analyze_error_patterns: the argument
  analysis,      \* analyze_error_patterns: the returned record
  scans,         \* analyze_error_patterns: keyword tests performed
  rec_kind,      \* record builder under comparison
  resp_pair,     \* two responses handed to that record builder
  rec_pair       \* the two records built from them

mainVars == <<pc, base_url, session, choice, console, inflight, issued, calls,
              ep, results, prompts_data, flow_test, dependencies, report,
              response, healthy>>
logVars  == <<log_text, analysis, scans>>
recVars  == <<rec_kind, resp_pair, rec_pair>>
vars     == <<mainVars, logVars, recVars>>

(***************************************************************************)
(* Bounds of the model.                                                    *)
(***************************************************************************)
MaxPrompts == 2      \* longest prompt list a simulated body carries
MaxFragments == 2    \* fragments concatenated into a simulated log text
LongTextLen == 600   \* length of the longest simulated response text
OtherStatus == 500   \* a status code that is neither 200 nor 404

(***************************************************************************)
(* Python values.                                                          *)
(***************************************************************************)
\* None / a local that is not bound yet: the function with the empty domain.
None == <<>>

Has(rec, key) == key \in DOMAIN rec

\* dict.get(key, default)
Get(rec, key, default) == IF key \in DOMAIN rec THEN rec[key] ELSE default

Min(a, b) == IF a <= b THEN a ELSE b

Uppers == <<"A","B","C","D","E","F","G","H","I","J","K","L","M",
            "N","O","P","Q","R","S","T","U","V","W","X","Y","Z">>
Lowers == <<"a","b","c","d","e","f","g","h","i","j","k","l","m",
            "n","o","p","q","r","s","t","u","v","w","x","y","z">>

LowerChar(c) ==
  IF \E i \in 1..26 : Uppers[i] = c
    THEN Lowers[CHOOSE i \in 1..26 : Uppers[i] = c]
    ELSE c

\* str.lower()
Lower(s) == [i \in 1..Len(s) |-> LowerChar(s[i])]

\* "needle in haystack" for Python strings
Contains(haystack, needle) ==
  \E i \in 0..(Len(haystack) - Len(needle)) :
    SubSeq(haystack, i + 1, i + Len(needle)) = needle

IsSpace(c) == c \in {" ", "\t", "\n"}

RECURSIVE LStrip(_)
LStrip(s) == IF s # <<>> /\ IsSpace(Head(s)) THEN LStrip(Tail(s)) ELSE s

RECURSIVE RStrip(_)
RStrip(s) ==
  IF s # <<>> /\ IsSpace(s[Len(s)]) THEN RStrip(SubSeq(s, 1, Len(s) - 1)) ELSE s

\* str.strip()
Strip(s) == RStrip(LStrip(s))

RECURSIVE Concat(_)
Concat(ss) == IF ss = <<>> THEN <<>> ELSE Head(ss) \o Concat(Tail(ss))

RECURSIVE SeqsUpTo(_, _)
SeqsUpTo(S, n) ==
  IF n = 0 THEN {<<>>}
  ELSE LET shorter == SeqsUpTo(S, n - 1)
       IN  shorter \cup {Append(q, x) : q \in shorter, x \in S}

(***************************************************************************)
(* analyze_error_patterns                                                  *)
(***************************************************************************)
patterns ==
  <<
      [name |-> "api_timeout", keywords |-> <<
          <<"t","i","m","e","o","u","t">>,
          <<"E","T","I","M","E","D","O","U","T">>,
          <<"r","e","q","u","e","s","t"," ","t","i","m","e","o","u","t">> >>],
      [name |-> "rate_limit", keywords |-> <<
          <<"r","a","t","e"," ","l","i","m","i","t">>,
          <<"4","2","9">>,
          <<"t","o","o"," ","m","a","n","y"," ","r","e","q","u","e","s","t","s">> >>],
      [name |-> "notion_error", keywords |-> <<
          <<"n","o","t","i","o","n">>,
          <<"N","O","T","I","O","N","_">>,
          <<"n","o","t","i","o","n"," ","a","p","i">> >>],
      [name |-> "gemini_error", keywords |-> <<
          <<"g","e","m","i","n","i">>,
          <<"g","o","o","g","l","e">>,
          <<"g","e","n","e","r","a","t","i","v","e","-","a","i">> >>],
      [name |-> "memory_error", keywords |-> <<
          <<"m","e","m","o","r","y">>,
          <<"h","e","a","p">>,
          <<"o","u","t"," ","o","f"," ","m","e","m","o","r","y">> >>],
      [name |-> "network_error", keywords |-> <<
          <<"E","C","O","N","N","R","E","S","E","T">>,
          <<"E","N","O","T","F","O","U","N","D">>,
          <<"n","e","t","w","o","r","k">> >>],
      [name |-> "json_parse_error", keywords |-> <<
          <<"J","S","O","N",".","p","a","r","s","e">>,
          <<"u","n","e","x","p","e","c","t","e","d"," ","t","o","k","e","n">>,
          <<"j","s","o","n">> >>],
      [name |-> "typescript_error", keywords |-> <<
          <<"T","y","p","e","S","c","r","i","p","t">>,
          <<".","t","s",":">>,
          <<"c","o","m","p","i","l","a","t","i","o","n">> >>]
  >>

\* A variant of KeywordMatches that forgets to case-fold the keyword.
KeywordMatchesUnfolded(keyword, text) == Contains(Lower(text), keyword)

\* line 178: keyword.lower() in log_text.lower()
KeywordMatches(keyword, text) == Contains(Lower(text), Lower(keyword))

\* lines 176-179: the matches list of one category, in keyword order
RECURSIVE Matches(_, _)
Matches(keywords, text) ==
  IF keywords = <<>> THEN <<>>
  ELSE (IF KeywordMatches(Head(keywords), text) THEN <<Head(keywords)>> ELSE <<>>)
       \o Matches(Tail(keywords), text)

\* lines 174-185: found_patterns
FoundPatterns(text) ==
  LET hit == {i \in 1..Len(patterns) : Matches(patterns[i].keywords, text) # <<>>}
  IN  [n \in {patterns[i].name : i \in hit} |->
         LET i == CHOOSE j \in hit : patterns[j].name = n
             matches == Matches(patterns[i].keywords, text)
         IN  [matched_keywords |-> matches, count |-> Len(matches)]]

\* The number of keyword tests the two loops of lines 175-179 perform.
RECURSIVE KeywordCount(_)
KeywordCount(ps) ==
  IF ps = <<>> THEN 0 ELSE Len(Head(ps).keywords) + KeywordCount(Tail(ps))

\* datetime.now(): the instant the clock shows during a run
Clock == {"now"}

\* A variant of NoLogText for a classifier that lost its guard.
NoLogTextNever(text) == FALSE

\* `not log_text`: None and the empty string are both falsy
NoLogText(text) == text = None

\* The fragments simulated log texts are concatenated from.
Fragments ==
  { <<"R","a","t","e"," ","L","i","m","i","t">>,
    <<"4","2","9">>,
    <<"r","e","q","u","e","s","t"," ">>,
    <<"T","I","M","E","O","U","T">>,
    <<"e","t","i","m","e","d","o","u","t">>,
    <<"N","o","t","i","o","n">>,
    <<" ","A","P","I">>,
    <<"J","S","O","N",".","p","a","r","s","e">>,
    <<"H","e","a","p">>,
    <<".","t","s",":">>,
    <<"o","k">> }

\* The arguments given to analyze_error_patterns: None (which, like "", is the
\* empty sequence here) and every concatenation of up to MaxFragments fragments.
LogTexts == {Concat(fs) : fs \in SeqsUpTo(Fragments, MaxFragments)}

\* lines 159-161
AnalyzeNoText ==
  /\ analysis = None
  /\ NoLogText(log_text)
  /\ analysis' = [error |-> "log text required"]
  /\ UNCHANGED <<log_text, scans>>
  /\ UNCHANGED <<mainVars, recVars>>

\* lines 163-192
AnalyzeText ==
  /\ analysis = None
  /\ ~NoLogText(log_text)
  /\ \E now \in Clock :
       LET found_patterns == FoundPatterns(log_text)
       IN  analysis' = [total_patterns |-> Cardinality(DOMAIN found_patterns),
                        patterns       |-> found_patterns,
                        log_length     |-> Len(log_text),
                        analysis_time  |-> now]
  /\ scans' = scans + KeywordCount(patterns)
  /\ log_text' = log_text
  /\ UNCHANGED <<mainVars, recVars>>

analyze_error_patterns == AnalyzeNoText \/ AnalyzeText

(***************************************************************************)
(* The HTTP client and the servers.                                        *)
(***************************************************************************)
HTTP_OK == 200
NOT_FOUND == 404
SessionTimeout == 30
NotionTimeout == 10
TextLimit == 500

DefaultUrl == "https://your-railway-app.up.railway.app"
GivenUrl == "https://staging.example"
NotionStatusUrl == <<"https://status.notion.so/api/v2/status.json">>

\* lines 31-35, in dict order
endpoints ==
  << [name |-> "health",  path |-> "/health"],
     [name |-> "prompts", path |-> "/api/research/prompts"],
     [name |-> "test",    path |-> "/api/research/test"] >>

\* f"{self.base_url}{path}"
Url(path) == <<base_url, path>>

\* self.session.get(url, **kwargs) / self.session.head(url): the request that
\* goes out carries the timeout of the call's own keyword argument and none
\* otherwise; requests.Session reads no `timeout` attribute, so the value
\* line 25 stores on the object does not reach the request.
SessionRequest(method, url, kwargs) ==
  [method |-> method, url |-> url] @@ kwargs

\* Bodies a server may send.  json: how response.json() fares ("dict", "list"
\* for a JSON document that is no object, "invalid" for one that does not
\* parse); gemini: the 'gemini' member; prompts: len(data.prompts), -1 when
\* 'data' is absent; text: response.text, by identity and length.
HealthyBody ==
  [json |-> "dict", gemini |-> "true", prompts |-> MaxPrompts,
   text |-> [id |-> "healthy-json", len |-> 40]]
DegradedBody ==
  [json |-> "dict", gemini |-> "false", prompts |-> -1,
   text |-> [id |-> "degraded-json", len |-> 40]]
ListBody ==
  [json |-> "list", gemini |-> "absent", prompts |-> -1,
   text |-> [id |-> "[]", len |-> 2]]
HtmlBody ==
  [json |-> "invalid", gemini |-> "absent", prompts |-> -1,
   text |-> [id |-> "html", len |-> LongTextLen]]
EmptyBody ==
  [json |-> "invalid", gemini |-> "absent", prompts |-> -1,
   text |-> [id |-> "", len |-> 0]]

Answer(code, body) ==
  [exc |-> "none", status_code |-> code, body |-> body, elapsed |-> 1]
Raised(e) ==
  [exc |-> e, status_code |-> 0, body |-> EmptyBody, elapsed |-> 0]

\* What a request can come back with when the server answers or the
\* connection fails.
Responses ==
  { Answer(HTTP_OK, HealthyBody), Answer(HTTP_OK, DegradedBody),
    Answer(HTTP_OK, ListBody), Answer(HTTP_OK, HtmlBody),
    Answer(NOT_FOUND, EmptyBody),
    Answer(OtherStatus, HealthyBody), Raised("ConnectionError") }

\* A request that carries a timeout can also end in requests' Timeout.
Outcomes(req) ==
  Responses \cup (IF Has(req, "timeout") THEN {Raised("Timeout")} ELSE {})

\* response.text[:n]
Truncate(text, n) == [id |-> text.id, len |-> Min(text.len, n)]

\* response.json(): raises for a body that does not parse
JsonRaises(resp) == resp.body.json = "invalid"

\* test_data.get(...) / prompts_data.get(...): raises AttributeError when the
\* parsed document is not a dict
GetRaises(resp) == resp.body.json = "list"

(***************************************************************************)
(* test_basic_endpoints                                                    *)
(***************************************************************************)
\* A variant of EndpointRecord that stores error_text only for a non-empty
\* error body and counts a 200 as a success only when its body parses.
EndpointRecordLossy(resp) ==
  IF resp.exc # "none"
    THEN [success |-> FALSE, error |-> resp.exc]
    ELSE [status_code    |-> resp.status_code,
          success        |-> resp.status_code = HTTP_OK /\ ~JsonRaises(resp),
          response_time  |-> resp.elapsed,
          content_length |-> resp.body.text.len,
          headers        |-> "headers"]
         @@ (IF resp.status_code = HTTP_OK
               THEN IF ~JsonRaises(resp)
                      THEN [json_data |-> resp.body]
                      ELSE [text_data |-> Truncate(resp.body.text, TextLimit)]
               ELSE IF resp.body.text.len > 0
                      THEN [error_text |-> resp.body.text]
                      ELSE None)

\* lines 40-70: results[name] for one response or exception
EndpointRecord(resp) ==
  IF resp.exc # "none"
    THEN [success |-> FALSE, error |-> resp.exc]
    ELSE [status_code    |-> resp.status_code,
          success        |-> resp.status_code = HTTP_OK,
          response_time  |-> resp.elapsed,
          content_length |-> resp.body.text.len,
          headers        |-> "headers"]
         @@ (IF resp.status_code = HTTP_OK
               THEN IF ~JsonRaises(resp)
                      THEN [json_data |-> resp.body]
                      ELSE [text_data |-> Truncate(resp.body.text, TextLimit)]
               ELSE [error_text |-> resp.body.text])

(***************************************************************************)
(* simulate_research_flow                                                  *)
(***************************************************************************)
BusinessName == "test-business"

\* len(prompts_data.get('data', {}).get('prompts', []))
PromptsCount(data) == IF data.prompts < 0 THEN 0 ELSE data.prompts

\* lines 79-88: the error record step 1 returns, or None when step 1 passes
PromptsFailure(resp) ==
  IF resp.exc # "none"
    THEN [error |-> <<"prompts fetch raised: ", resp.exc>>]
  ELSE IF resp.status_code # HTTP_OK
    THEN [error |-> <<"prompts fetch failed: ", ToString(resp.status_code)>>]
  ELSE IF JsonRaises(resp)
    THEN [error |-> <<"prompts fetch raised: ", "JSONDecodeError">>]
  ELSE IF GetRaises(resp)
    THEN [error |-> <<"prompts fetch raised: ", "AttributeError">>]
  ELSE None

\* lines 102-119: the record step 2 returns
FlowResult(data, resp) ==
  IF resp.exc # "none"
    THEN [error |-> <<"research flow check raised: ", resp.exc>>]
    ELSE [prompts_count            |-> PromptsCount(data),
          research_endpoint_exists |-> resp.status_code # NOT_FOUND,
          test_request_valid       |-> TRUE,
          business_name            |-> BusinessName]

(***************************************************************************)
(* check_api_dependencies                                                  *)
(***************************************************************************)
\* lines 128-137
NotionRecord(resp) ==
  IF resp.exc # "none"
    THEN [status |-> "error", error |-> resp.exc]
    ELSE [status        |-> IF resp.status_code = HTTP_OK THEN "up" ELSE "down",
          response_time |-> resp.elapsed]

\* A variant of GeminiRecord that trusts a 200 without reading its body.
GeminiRecordStatusOnly(resp) ==
  IF resp.exc # "none"
    THEN [status |-> "error", error |-> resp.exc]
  ELSE IF resp.status_code = HTTP_OK
    THEN [status |-> "up", test_result |-> TRUE]
  ELSE [status |-> "unknown", error |-> "test endpoint did not answer"]

\* lines 140-151
GeminiRecord(resp) ==
  IF resp.exc # "none"
    THEN [status |-> "error", error |-> resp.exc]
  ELSE IF resp.status_code = HTTP_OK
    THEN IF JsonRaises(resp)
           THEN [status |-> "error", error |-> "JSONDecodeError"]
         ELSE IF GetRaises(resp)
           THEN [status |-> "error", error |-> "AttributeError"]
         ELSE [status      |-> IF resp.body.gemini = "true" THEN "up" ELSE "down",
               test_result |-> resp.body.gemini = "true"]
  ELSE [status |-> "unknown", error |-> "test endpoint did not answer"]

(***************************************************************************)
(* generate_debug_report                                                   *)
(***************************************************************************)
CHECK == "U+2705"
CROSS == "U+274C"
SEIJOU == "seijou"
IJOU == "ijou"

OkStatus == <<CHECK, " ", SEIJOU>>
BadStatus == <<CROSS, " ", IJOU>>

\* str.upper() on the service names
UpperName(service) ==
  CASE service = "notion" -> "NOTION"
    [] service = "gemini" -> "GEMINI"
    [] OTHER -> service

\* lines 204-210
HeaderLines(now) ==
  << <<"# ", "U+1F50D", " Market Research System - debug report">>,
     <<"**generated at**: ", now>>,
     <<"**target**: ", base_url>>,
     <<>>,
     <<"## ", "U+1F4CA", " basic endpoint test">> >>

\* lines 213-216: the lines of one endpoint
EndpointLines(name, result) ==
  IF Get(result, "success", FALSE)
    THEN << <<"- **", name, "**: ">> \o OkStatus >>
    ELSE << <<"- **", name, "**: ">> \o BadStatus,
            <<"  - error: ", Get(result, "error", "Unknown")>> >>

\* lines 212-216: basic_test.items() in insertion order
RECURSIVE BasicLines(_, _)
BasicLines(basic, i) ==
  IF i > Len(endpoints) THEN <<>>
  ELSE (IF Has(basic, endpoints[i].name)
          THEN EndpointLines(endpoints[i].name, basic[endpoints[i].name])
          ELSE <<>>)
       \o BasicLines(basic, i + 1)

\* lines 218-229
FlowLines(flow) ==
  << <<>>, <<"## ", "U+1F9EA", " research flow test">> >>
  \o IF ~Has(flow, "error")
       THEN << <<"- ", CHECK, " research flow: basic structure ", SEIJOU>>,
               <<"  - prompts: ", ToString(Get(flow, "prompts_count", "N/A"))>>,
               <<"  - research endpoint: ",
                 IF Get(flow, "research_endpoint_exists", FALSE)
                   THEN "exists" ELSE "unknown">> >>
       ELSE << <<"- ", CROSS, " research flow: error">>,
               <<"  - error: ">> \o flow.error >>

\* A variant of DependencyLines that reads the 'success' key of the endpoint
\* records instead of 'status'.
DependencyLinesBySuccess(service, result) ==
  IF Get(result, "success", FALSE)
    THEN << <<"- **", UpperName(service), "**: ">> \o OkStatus >>
    ELSE << <<"- **", UpperName(service), "**: ">> \o BadStatus,
            <<"  - error: ", Get(result, "error", "Unknown")>> >>

\* lines 237-240: the lines of one dependency
DependencyLines(service, result) ==
  IF Get(result, "status", "") = "up"
    THEN << <<"- **", UpperName(service), "**: ">> \o OkStatus >>
    ELSE << <<"- **", UpperName(service), "**: ">> \o BadStatus,
            <<"  - error: ", Get(result, "error", "Unknown")>> >>

\* lines 231-240: deps_test.items() in insertion order
DepsLines(deps) ==
  << <<>>, <<"## ", "U+1F517", " external API dependencies">> >>
  \o (IF Has(deps, "notion") THEN DependencyLines("notion", deps["notion"]) ELSE <<>>)
  \o (IF Has(deps, "gemini") THEN DependencyLines("gemini", deps["gemini"]) ELSE <<>>)

\* lines 242-258
AdviceLines ==
  << <<>>,
     <<"## ", "U+1F6A8", " recommended actions">>,
     <<>>,
     <<"### when an anomaly was detected:">>,
     <<"1. check the logs on the Railway dashboard">>,
     <<"2. check the environment variables">>,
     <<"3. check the API limits">>,
     <<"4. file a bug report from this report">>,
     <<>>,
     <<"### when everything is ", SEIJOU, ":">>,
     <<"1. record the steps to reproduce the bug">>,
     <<"2. check the errors in the browser's Developer Tools">>,
     <<"3. find out whether only one operation triggers the problem">>,
     <<>>,
     <<"**report tool**: python3 debug_tools.py --full-report">> >>

\* lines 204-260: report_lines
ReportLines(basic, flow, deps, now) ==
  HeaderLines(now) \o BasicLines(basic, 1) \o FlowLines(flow)
    \o DepsLines(deps) \o AdviceLines

(***************************************************************************)
(* main and the steps of the checks.  A step runs the code from one        *)
(* blocking call (input(), session.get, session.head) to the next.         *)
(***************************************************************************)
\* sys.argv, the URL typed at the first prompt, os.environ
Argvs == {<<"debug_tools.py">>, <<"debug_tools.py", GivenUrl>>}
TypedUrls == {"", GivenUrl}
Environs == {None, [PRODUCTION_URL |-> GivenUrl]}

\* Lines typed at the menu prompt.
MenuLines ==
  { <<"1">>, <<"2">>, <<"3">>, <<"4">>, <<" ", "4", "\t">>,
    <<"q">>, <<"Q">>, <<" ", "q", " ">>,
    <<>>, <<"5">>, <<"x">>, <<"q", "q">>, <<"1", "2">> }

\* lines 279-284: the keys of options
options == {<<"1">>, <<"2">>, <<"3">>, <<"4">>}

\* `a or b` on strings: None and "" are both falsy and both "" here
Or(a, b) == IF a = "" THEN b ELSE a

\* lines 264-270
ChosenUrl(argv, typed) == IF Len(argv) > 1 THEN argv[2] ELSE typed

\* line 23
InitialBaseUrl(arg, environ) == Or(arg, Get(environ, "PRODUCTION_URL", DefaultUrl))

\* The request lines 41-44 send for endpoint i.
ProbeRequest(i) == SessionRequest("GET", Url(endpoints[i].path), None)
\* line 80
PromptsRequest == SessionRequest("GET", Url("/api/research/prompts"), None)
\* lines 104-108
HeadRequest == SessionRequest("HEAD", Url("/api/research/conduct"), None)
\* line 129
NotionRequest == SessionRequest("GET", NotionStatusUrl, [timeout |-> NotionTimeout])
\* line 141
TestRequest == SessionRequest("GET", Url("/api/research/test"), None)

\* The tool blocks in session.get / session.head.
Send(req, site) ==
  /\ inflight' = req
  /\ issued' = Append(issued, req)
  /\ pc' = site
  /\ console' = console

\* lines 302-314: the try block of main prints the returned value, or the
\* handler of line 310 prints the exception it raised; then main waits for
\* Enter.
Output(raised) ==
  /\ inflight' = None
  /\ issued' = issued
  /\ pc' = "pause"
  /\ console' = IF raised THEN "error" ELSE "result"

\* line 294
IsQuit(c) == Lower(c) = <<"q">>

MainInit ==
  /\ pc = "start"
  /\ base_url = ""
  /\ session = None
  /\ choice = <<>>
  /\ console = "none"
  /\ inflight = None
  /\ issued = <<>>
  /\ calls = <<>>
  /\ ep = 0
  /\ results = None
  /\ prompts_data = None
  /\ flow_test = None
  /\ dependencies = None
  /\ report = None
  /\ response = None
  /\ healthy = TRUE

LogIdle ==
  /\ log_text = None
  /\ analysis = None
  /\ scans = 0

RecIdle ==
  /\ rec_kind = "none"
  /\ resp_pair = None
  /\ rec_pair = None

Init == MainInit /\ LogIdle /\ RecIdle

\* lines 264-289 and __init__ (lines 23-25)
Main_Start ==
  /\ pc = "start"
  /\ \E argv \in Argvs, typed \in TypedUrls, environ \in Environs :
       base_url' = InitialBaseUrl(ChosenUrl(argv, typed), environ)
  /\ session' = [timeout |-> SessionTimeout]
  /\ pc' = "menu"
  /\ console' = "menu"
  /\ UNCHANGED <<choice, inflight, issued, calls, ep, results, prompts_data,
                 flow_test, dependencies, report, response, healthy>>
  /\ UNCHANGED <<logVars, recVars>>

\* A variant of Main_Choice in which an unknown choice leaves the loop.
Main_ChoiceLeaving(line) ==
  /\ pc = "menu"
  /\ choice' = Strip(line)
  /\ Strip(line) \notin options
  /\ pc' = "done"
  /\ console' = IF IsQuit(choice') THEN "bye" ELSE "invalid"
  /\ UNCHANGED <<base_url, session, inflight, issued, calls, ep, results,
                 prompts_data, flow_test, dependencies, report, response, healthy>>
  /\ UNCHANGED <<logVars, recVars>>

\* lines 292-300 and 315-316, up to the first request of the chosen check
Main_Choice(line) ==
  /\ pc = "menu"
  /\ choice' = Strip(line)
  /\ IF IsQuit(choice')
       THEN /\ pc' = "done"
            /\ console' = "bye"
            /\ UNCHANGED <<inflight, issued, calls, ep>>
     ELSE IF choice' = <<"1">>
       THEN /\ calls' = <<"test_basic_endpoints">>
            /\ ep' = 1
            /\ Send(ProbeRequest(1), "probe")
     ELSE IF choice' = <<"2">>
       THEN /\ calls' = <<"simulate_research_flow">>
            /\ ep' = ep
            /\ Send(PromptsRequest, "flow_prompts")
     ELSE IF choice' = <<"3">>
       THEN /\ calls' = <<"check_api_dependencies">>
            /\ ep' = ep
            /\ Send(NotionRequest, "deps_notion")
     ELSE IF choice' = <<"4">>
       THEN /\ calls' = <<"generate_debug_report", "test_basic_endpoints">>
            /\ ep' = 1
            /\ Send(ProbeRequest(1), "probe")
     ELSE /\ pc' = "menu"
          /\ console' = "invalid"
          /\ UNCHANGED <<inflight, issued, calls, ep>>
  /\ UNCHANGED <<base_url, session, results, prompts_data, flow_test,
                 dependencies, report, response, healthy>>
  /\ UNCHANGED <<logVars, recVars>>

\* lines 44-72: one response of the probing loop, up to the next request
TestBasicEndpoints_Response(resp) ==
  /\ pc = "probe"
  /\ resp \in Outcomes(inflight)
  /\ response' = resp
  /\ healthy' = (healthy /\ resp.exc = "none" /\ resp.status_code = HTTP_OK)
  /\ results' = results @@ (endpoints[ep].name :> EndpointRecord(resp))
  /\ IF ep < Len(endpoints)
       THEN /\ ep' = ep + 1
            /\ calls' = calls
            /\ Send(ProbeRequest(ep + 1), "probe")
     ELSE IF choice = <<"4">>
       THEN /\ ep' = ep
            /\ calls' = Append(calls, "simulate_research_flow")
            /\ Send(PromptsRequest, "flow_prompts")
     ELSE /\ ep' = ep
          /\ calls' = calls
          /\ \E raised \in BOOLEAN : Output(raised)
  /\ UNCHANGED <<base_url, session, choice, prompts_data, flow_test,
                 dependencies, report>>
  /\ UNCHANGED <<logVars, recVars>>

\* A variant of FlowReturns in which the report gives up after a failed flow
\* simulation.
FlowReturnsGivingUp ==
  IF choice = <<"4">> /\ ~Has(flow_test', "error")
    THEN /\ calls' = Append(calls, "check_api_dependencies")
         /\ Send(NotionRequest, "deps_notion")
    ELSE /\ calls' = calls
         /\ \E raised \in BOOLEAN : Output(raised)

\* The caller's continuation when simulate_research_flow returns: line 201
\* of generate_debug_report, or the try block of main.
FlowReturns ==
  IF choice = <<"4">>
    THEN /\ calls' = Append(calls, "check_api_dependencies")
         /\ Send(NotionRequest, "deps_notion")
    ELSE /\ calls' = calls
         /\ \E raised \in BOOLEAN : Output(raised)

\* A variant of SimulateResearchFlow_PromptsResponse that goes on to the HEAD
\* request whatever the prompt listing answered.
SimulateResearchFlow_PromptsResponseCarryOn(resp) ==
  /\ pc = "flow_prompts"
  /\ resp \in Outcomes(inflight)
  /\ response' = resp
  /\ healthy' = (healthy /\ PromptsFailure(resp) = None)
  /\ prompts_data' = resp.body
  /\ flow_test' = flow_test
  /\ calls' = calls
  /\ Send(HeadRequest, "flow_head")
  /\ UNCHANGED <<base_url, session, choice, ep, results, dependencies, report>>
  /\ UNCHANGED <<logVars, recVars>>

\* lines 80-108: the response to the prompt listing
SimulateResearchFlow_PromptsResponse(resp) ==
  /\ pc = "flow_prompts"
  /\ resp \in Outcomes(inflight)
  /\ response' = resp
  /\ healthy' = (healthy /\ PromptsFailure(resp) = None)
  /\ IF PromptsFailure(resp) # None
       THEN /\ flow_test' = PromptsFailure(resp)
            /\ prompts_data' = prompts_data
            /\ FlowReturns
       ELSE /\ prompts_data' = resp.body
            /\ flow_test' = flow_test
            /\ calls' = calls
            /\ Send(HeadRequest, "flow_head")
  /\ UNCHANGED <<base_url, session, choice, ep, results, dependencies, report>>
  /\ UNCHANGED <<logVars, recVars>>

\* lines 108-119: the response to the HEAD request
SimulateResearchFlow_HeadResponse(resp) ==
  /\ pc = "flow_head"
  /\ resp \in Outcomes(inflight)
  /\ response' = resp
  /\ healthy' = (healthy /\ resp.exc = "none" /\ resp.status_code = HTTP_OK)
  /\ flow_test' = FlowResult(prompts_data, resp)
  /\ FlowReturns
  /\ UNCHANGED <<base_url, session, choice, ep, results, prompts_data,
                 dependencies, report>>
  /\ UNCHANGED <<logVars, recVars>>

\* lines 129-141: the response of the status page
CheckApiDependencies_NotionResponse(resp) ==
  /\ pc = "deps_notion"
  /\ resp \in Outcomes(inflight)
  /\ response' = resp
  /\ healthy' = (healthy /\ resp.exc = "none" /\ resp.status_code = HTTP_OK)
  /\ dependencies' = ("notion" :> NotionRecord(resp))
  /\ calls' = calls
  /\ Send(TestRequest, "deps_gemini")
  /\ UNCHANGED <<base_url, session, choice, ep, results, prompts_data,
                 flow_test, report>>
  /\ UNCHANGED <<logVars, recVars>>

\* lines 141-153, and for the report lines 203-260: the response of the
\* test endpoint
CheckApiDependencies_TestResponse(resp) ==
  /\ pc = "deps_gemini"
  /\ resp \in Outcomes(inflight)
  /\ response' = resp
  /\ healthy' = (healthy /\ resp.exc = "none" /\ resp.status_code = HTTP_OK
                   /\ resp.body.json = "dict" /\ resp.body.gemini = "true")
  /\ dependencies' = dependencies @@ ("gemini" :> GeminiRecord(resp))
  /\ calls' = calls
  /\ IF choice = <<"4">>
       THEN \E now \in Clock :
              report' = ReportLines(results, flow_test, dependencies', now)
       ELSE report' = report
  /\ \E raised \in BOOLEAN : Output(raised)
  /\ UNCHANGED <<base_url, session, choice, ep, results, prompts_data, flow_test>>
  /\ UNCHANGED <<logVars, recVars>>

\* line 314 and back to line 292: the locals of the finished check are gone
Main_Continue ==
  /\ pc = "pause"
  /\ pc' = "menu"
  /\ console' = "menu"
  /\ inflight' = None
  /\ issued' = <<>>
  /\ calls' = <<>>
  /\ ep' = 0
  /\ results' = None
  /\ prompts_data' = None
  /\ flow_test' = None
  /\ dependencies' = None
  /\ report' = None
  /\ response' = None
  /\ healthy' = TRUE
  /\ UNCHANGED <<base_url, session, choice>>
  /\ UNCHANGED <<logVars, recVars>>

Next ==
  \/ Main_Start
  \/ \E line \in MenuLines : Main_Choice(line)
  \/ \E resp \in Responses \cup {Raised("Timeout")} :
       \/ TestBasicEndpoints_Response(resp)
       \/ SimulateResearchFlow_PromptsResponse(resp)
       \/ SimulateResearchFlow_HeadResponse(resp)
       \/ CheckApiDependencies_NotionResponse(resp)
       \/ CheckApiDependencies_TestResponse(resp)
  \/ Main_Continue

Spec == Init /\ [][Next]_vars

(***************************************************************************)
(* The log classifier on its own: analyze_error_patterns is called once    *)
(* with one argument.                                                      *)
(***************************************************************************)
LogInit ==
  /\ MainInit
  /\ RecIdle
  /\ log_text \in LogTexts
  /\ analysis = None
  /\ scans = 0

SpecLog == LogInit /\ [][analyze_error_patterns]_vars

(***************************************************************************)
(* The record builders on their own: one builder is given two responses.   *)
(***************************************************************************)
RecordKinds == {"endpoint", "notion", "gemini"}

Bodies == {HealthyBody, DegradedBody, ListBody, HtmlBody, EmptyBody}

AllResponses ==
  {Answer(code, body) : code \in {HTTP_OK, NOT_FOUND, OtherStatus}, body \in Bodies}
    \cup {Raised("ConnectionError"), Raised("Timeout")}

RecordOf(kind, resp) ==
  CASE kind = "endpoint" -> EndpointRecord(resp)
    [] kind = "notion"   -> NotionRecord(resp)
    [] kind = "gemini"   -> GeminiRecord(resp)

\* The 'success' field of an endpoint record, the 'status' field of a
\* dependency record.
VerdictOf(kind, rec) == IF kind = "endpoint" THEN rec.success ELSE rec.status

RecInit ==
  /\ MainInit
  /\ LogIdle
  /\ rec_kind \in RecordKinds
  /\ resp_pair \in AllResponses \X AllResponses
  /\ rec_pair = None

BuildRecords ==
  /\ rec_pair = None
  /\ rec_pair' = <<RecordOf(rec_kind, resp_pair[1]), RecordOf(rec_kind, resp_pair[2])>>
  /\ UNCHANGED <<rec_kind, resp_pair>>
  /\ UNCHANGED <<mainVars, logVars>>

SpecRecords == RecInit /\ [][BuildRecords]_vars

(***************************************************************************)
(* Properties.                                                             *)
(***************************************************************************)
Failed(resp) == resp.exc # "none" \/ resp.status_code # HTTP_OK

NoHeadIn(reqs) == \A i \in 1..Len(reqs) : reqs[i].method # "HEAD"

HasGlyph(lines, glyph) ==
  \E i \in 1..Len(lines) : \E j \in 1..Len(lines[i]) : lines[i][j] = glyph

\* The report lines that begin "- **subject**: ".
LinesOf(lines, subject) ==
  {i \in 1..Len(lines) :
     Len(lines[i]) >= 3 /\ SubSeq(lines[i], 1, 3) = <<"- **", subject, "**: ">>}

MarkedOk(lines, subject) ==
  /\ LinesOf(lines, subject) # {}
  /\ \A i \in LinesOf(lines, subject) : Contains(lines[i], OkStatus)

MarkedBad(lines, subject) ==
  /\ LinesOf(lines, subject) # {}
  /\ \A i \in LinesOf(lines, subject) : Contains(lines[i], BadStatus)

\* C1: for each of the three endpoints probed by test_basic_endpoints, a 200
\* response is recorded with success = TRUE and a body field (json_data when
\* the body parses, text_data otherwise), and any other status is recorded
\* with success = FALSE and error_text set to the response text.
C1_ProbeRecordFollowsStatus ==
  [][pc = "probe" =>
       LET resp == response'
           rec  == results'[endpoints[ep].name]
       IN  resp.exc = "none" =>
             /\ resp.status_code = HTTP_OK =>
                  /\ rec.success = TRUE
                  /\ IF resp.body.json # "invalid"
                       THEN Has(rec, "json_data") /\ rec.json_data = resp.body
                       ELSE Has(rec, "text_data") /\ ~Has(rec, "json_data")
                  /\ ~Has(rec, "error_text")
             /\ resp.status_code # HTTP_OK =>
                  /\ rec.success = FALSE
                  /\ Has(rec, "error_text")
                  /\ rec.error_text = resp.body.text]_vars

\* C1 witness: a finished probe holds a 200 record with a parsed body, a 200
\* record with a text body and a non-200 record with error_text.
C1_Witness ==
  /\ pc = "pause"
  /\ choice = <<"1">>
  /\ results["health"] = EndpointRecord(Answer(HTTP_OK, HealthyBody))
  /\ Has(results["prompts"], "text_data")
  /\ results["test"].success = FALSE
  /\ Has(results["test"], "error_text")

\* C2: in simulate_research_flow, when the GET of the prompt listing fails
\* (a non-200 status or an exception) the function returns a record with an
\* 'error' key and sends no HEAD request in that call.
C2_FailedPromptsStopTheFlow ==
  [][(pc = "flow_prompts" /\ Failed(response')) =>
       /\ Has(flow_test', "error")
       /\ pc' # "flow_head"
       /\ inflight' = None \/ inflight'.method # "HEAD"
       /\ NoHeadIn(issued')]_vars

\* C2 witness: a flow simulation that ended on a 404 from the prompt listing.
C2_Witness ==
  /\ pc = "pause"
  /\ choice = <<"2">>
  /\ response = Answer(NOT_FOUND, EmptyBody)
  /\ Has(flow_test, "error")
  /\ Len(issued) = 1

\* C3: the status recorded for gemini follows the GET of the test endpoint:
\* 200 with the field true gives 'up', 200 with the field false gives 'down',
\* a non-200 response gives 'unknown', an exception of the call gives 'error'.
C3_GeminiStatusFollowsTestEndpoint ==
  [][pc = "deps_gemini" =>
       LET resp   == response'
           status == dependencies'["gemini"].status
       IN  /\ resp.exc # "none" => status = "error"
           /\ (resp.exc = "none" /\ resp.status_code # HTTP_OK) => status = "unknown"
           /\ (resp.exc = "none" /\ resp.status_code = HTTP_OK
                 /\ resp.body.json = "dict" /\ resp.body.gemini = "true")
                => status = "up"
           /\ (resp.exc = "none" /\ resp.status_code = HTTP_OK
                 /\ resp.body.json = "dict" /\ resp.body.gemini = "false")
                => status = "down"]_vars

\* C3 witness: a dependency check whose test endpoint answered 200 with the
\* field false.
C3_Witness ==
  /\ pc = "pause"
  /\ choice = <<"3">>
  /\ response = Answer(HTTP_OK, DegradedBody)
  /\ dependencies["gemini"].status = "down"

\* C4: a report built from healthy responses only carries the marker
\* CHECK SEIJOU on the line of each of the three endpoints and of each of the
\* two dependencies, and the glyph CROSS nowhere.
C4_HealthyReportHasNoCross ==
  (pc = "pause" /\ choice = <<"4">> /\ healthy) =>
    /\ \A i \in 1..Len(endpoints) : MarkedOk(report, endpoints[i].name)
    /\ MarkedOk(report, "NOTION")
    /\ MarkedOk(report, "GEMINI")
    /\ ~HasGlyph(report, CROSS)

\* C4 witness: a report has been returned after healthy responses only.
C4_Witness ==
  /\ pc = "pause"
  /\ choice = <<"4">>
  /\ healthy
  /\ Len(issued) = 7
  /\ report # None

ReportOrder ==
  <<"generate_debug_report", "test_basic_endpoints",
    "simulate_research_flow", "check_api_dependencies">>

\* C5: generate_debug_report runs the prober, the flow simulator and the
\* dependency checker in that order, each once, whatever the network calls
\* return; a failed step shows in the report and the report is returned.
C5_ReportRunsEveryStep ==
  choice = <<"4">> =>
    /\ pc = "probe" => calls = SubSeq(ReportOrder, 1, 2)
    /\ pc \in {"flow_prompts", "flow_head"} => calls = SubSeq(ReportOrder, 1, 3)
    /\ pc \in {"deps_notion", "deps_gemini"} => calls = ReportOrder
    /\ pc = "pause" =>
         /\ calls = ReportOrder
         /\ report # None
         /\ DOMAIN results = {endpoints[i].name : i \in 1..Len(endpoints)}
         /\ flow_test # None
         /\ DOMAIN dependencies = {"notion", "gemini"}
         /\ \A i \in 1..Len(endpoints) :
              ~results[endpoints[i].name].success
                => MarkedBad(report, endpoints[i].name)
         /\ Has(flow_test, "error") =>
              \E i \in 1..Len(report) :
                report[i] = <<"  - error: ">> \o flow_test.error

\* C5 witness: a report was returned although the first probe, the flow
\* simulation and the dependency checks all failed.
C5_Witness ==
  /\ pc = "pause"
  /\ choice = <<"4">>
  /\ results["health"].success = FALSE
  /\ Has(flow_test, "error")
  /\ dependencies["notion"].status = "error"
  /\ dependencies["gemini"].status = "error"
  /\ report # None

\* C6: in the menu loop only the choice q or Q ends the loop; an invalid
\* choice prompts again without running a check; an exception raised by a
\* chosen check is caught and printed and the loop prompts again.
C6_OnlyQuitEndsTheLoop ==
  [][/\ pc' = "done" => (pc = "menu" /\ choice' \in {<<"q">>, <<"Q">>})
     /\ (pc = "menu" /\ choice' \in {<<"q">>, <<"Q">>}) => pc' = "done"
     /\ (pc = "menu" /\ choice' \notin options \cup {<<"q">>, <<"Q">>}) =>
          /\ pc' = "menu"
          /\ console' = "invalid"
          /\ inflight' = None /\ issued' = <<>> /\ calls' = <<>>
     /\ console' = "error" => pc' = "pause"
     /\ pc = "pause" => pc' = "menu"]_vars

\* C6 witness: the handler of main has printed an exception of the chosen
\* check and the loop waits for Enter.
C6_Witness ==
  /\ pc = "pause"
  /\ console = "error"
  /\ choice \in options

\* C7: every HTTP request the tool sends carries a client-side timeout, 30
\* seconds to the base URL and 10 seconds to the status page.
C7_EveryRequestHasTimeout ==
  inflight # None =>
    /\ Has(inflight, "timeout")
    /\ inflight.timeout =
         IF inflight.url = NotionStatusUrl THEN NotionTimeout ELSE SessionTimeout

SameLetter(a, b) ==
  a = b \/ \E i \in 1..26 : {a, b} = {Uppers[i], Lowers[i]}

\* keyword occurs in text as a substring, letter case ignored
OccursIn(keyword, text) ==
  \E off \in 0..(Len(text) - Len(keyword)) :
    \A j \in 1..Len(keyword) : SameLetter(text[off + j], keyword[j])

Occurring(i, text) ==
  {k \in 1..Len(patterns[i].keywords) : OccursIn(patterns[i].keywords[k], text)}

\* C8: for a non-empty log text a category is in 'patterns' exactly when one
\* of its keywords occurs in the text, letter case ignored; matched_keywords
\* are the keywords that occur, count is their number, and total_patterns is
\* the number of categories present.
C8_PatternsAreTheOccurringKeywords ==
  (analysis # None /\ log_text # <<>>) =>
    /\ \A i \in 1..Len(patterns) :
         LET occ == Occurring(i, log_text)
             cat == patterns[i].name
         IN  /\ Has(analysis.patterns, cat) <=> occ # {}
             /\ occ # {} =>
                  LET m == analysis.patterns[cat].matched_keywords
                  IN  /\ {m[j] : j \in 1..Len(m)}
                           = {patterns[i].keywords[k] : k \in occ}
                      /\ Len(m) = Cardinality(occ)
                      /\ analysis.patterns[cat].count = Cardinality(occ)
    /\ DOMAIN analysis.patterns \subseteq {patterns[i].name : i \in 1..Len(patterns)}
    /\ analysis.total_patterns
         = Cardinality({i \in 1..Len(patterns) : Occurring(i, log_text) # {}})

\* C8 witness: a text with "Rate Limit" and "429" was classified as
\* rate_limit with two keywords.
C8_Witness ==
  /\ analysis # None
  /\ log_text = <<"R","a","t","e"," ","L","i","m","i","t","4","2","9">>
  /\ analysis.total_patterns = 1
  /\ analysis.patterns["rate_limit"].count = 2

\* C9: called with no log text, analyze_error_patterns returns a record with
\* the 'error' key alone and tests no keyword.
C9_NoTextGivesErrorOnly ==
  (analysis # None /\ log_text = None) =>
    /\ DOMAIN analysis = {"error"}
    /\ scans = 0

\* C9 witness: the classifier has returned for a call without text.
C9_Witness ==
  /\ log_text = None
  /\ analysis # None

\* The exception that ends the try block of the record's call: the one the
\* request raised or, for the gemini record, the one raised by reading the
\* body of a 200 response.
ExceptionOf(kind, resp) ==
  IF resp.exc # "none" THEN resp.exc
  ELSE IF kind = "gemini" /\ resp.status_code = HTTP_OK /\ JsonRaises(resp)
    THEN "JSONDecodeError"
  ELSE IF kind = "gemini" /\ resp.status_code = HTTP_OK /\ GetRaises(resp)
    THEN "AttributeError"
  ELSE "none"

SameOutcome(kind, a, b) ==
  /\ ExceptionOf(kind, a) = ExceptionOf(kind, b)
  /\ a.status_code = b.status_code

\* C10 as stated: two calls with the same status code and the same exception
\* outcome give the same 'success' / 'status', whatever the bodies hold.
C10_VerdictFromOutcomeOnly ==
  (rec_pair # None /\ SameOutcome(rec_kind, resp_pair[1], resp_pair[2])) =>
    VerdictOf(rec_kind, rec_pair[1]) = VerdictOf(rec_kind, rec_pair[2])

\* C10 as amended: the same, except that the gemini status of a 200 response
\* whose body was read without an exception also depends on that body.
C10_VerdictFromOutcomeExceptGemini200 ==
  (/\ rec_pair # None
   /\ SameOutcome(rec_kind, resp_pair[1], resp_pair[2])
   /\ ~(/\ rec_kind = "gemini"
        /\ ExceptionOf(rec_kind, resp_pair[1]) = "none"
        /\ resp_pair[1].status_code = HTTP_OK)) =>
    VerdictOf(rec_kind, rec_pair[1]) = VerdictOf(rec_kind, rec_pair[2])

\* C10 witness: an endpoint record pair built from two 200 responses whose
\* bodies differ.
C10_Witness ==
  /\ rec_pair # None
  /\ rec_kind = "endpoint"
  /\ resp_pair = <<Answer(HTTP_OK, HealthyBody), Answer(HTTP_OK, HtmlBody)>>
  /\ rec_pair[1].success = rec_pair[2].success
====
